---- MODULE Spec2Model ----
(***************************************************************************)
(* Order-payment orchestration and idempotency protocol of                 *)
(* maisarasherif/order-processing-microservices.                           *)
(*                                                                         *)
(* Three parts of the repository are modelled:                             *)
(*   - the payment service backed by PostgreSQL (handlers.ProcessPayment   *)
(*     over repository.PostgresRepository and the payments table);         *)
(*   - the order service's CreateOrder saga (handlers.Orders.CreateOrder   *)
(*     over the orders table and the payment client);                      *)
(*   - the in-memory payment ledger of package data (CreatePayment,        *)
(*     ProcessPayment, paymentList, idempotencyMap).                       *)
(*                                                                         *)
(* Identifiers produced by uuid.New() are modelled by the index of the     *)
(* request that asks for them: saga s owns order id s, handler h mints     *)
(* payment id h.  Amounts are whole currency units.                        *)
(***************************************************************************)
EXTENDS Integers, Sequences, FiniteSets, TLC

\* ------------------------------------------------------------------ bounds
\* Number of concurrent CreateOrder requests.
MaxSagas == 2
\* Number of concurrent direct callers of POST /payments.
MaxCallers == 2
\* Number of distinct idempotency keys the direct callers draw from.
MaxKeys == 2
\* Number of Payment structs handed to the in-memory ledger's CreatePayment.
MaxCandidates == 2
\* Last reading of the clock (time.Now) in the in-memory ledger.
MaxClock == 2
\* Seconds by which the clock of a waiting order request advances per step.
TimeStep == 10

\* ------------------------------------------------------- program constants
\* simulatePaymentGateway: the amount that is always declined.
DeclineSentinel == 666
\* http.Client.Timeout of the payment client, in seconds.
ClientTimeout == 30
\* http.Server.WriteTimeout of the order service, in seconds.
WriteTimeout == 10
\* simulatePaymentGateway: amounts above this ceiling are declined.
AmountCeiling == 10000

PaymentStatusPending == "pending"
PaymentStatusProcessing == "processing"
PaymentStatusCompleted == "completed"
PaymentStatusFailed == "failed"

OrderStatusPending == "pending"
OrderStatusPaid == "paid"
OrderStatusFailed == "failed"

ErrDuplicateIdempotencyKey == "duplicate idempotency key"
ErrPaymentNotFound == "payment not found"
ErrOrderNotFound == "order not found"
ErrPaymentAlreadyProcessed == "payment already processed"
DeclineMessage == "Payment declined by gateway"

\* SQL NULL / Go zero value of a pointer or string column.
Null == "null"
\* The value of a timestamp column that has been set.
Stamp == "set"

Sagas == 1..MaxSagas
Callers == (MaxSagas + 1)..(MaxSagas + MaxCallers)
\* One payment-service handler invocation per request: those of the sagas
\* and those of the direct callers.
Handlers == Sagas \cup Callers
\* An idempotency key is the pair <<order id, nonce>>; direct callers use
\* order reference 0, which no order of the order service carries.
CallerKeys == {<<0, k>> : k \in 1..MaxKeys}
\* Amounts the direct callers submit: one the gateway accepts, one it declines.
CallerInputs ==
    { <<25, "credit_card">>, <<DeclineSentinel, "credit_card">>,
      <<AmountCeiling, "paypal">>, <<AmountCeiling + 1, "paypal">> }

VARIABLES
    payments,   \* the rows of the PostgreSQL payments table
    hpc,        \* hpc[h]: position of handler h inside Payments.ProcessPayment
    hpay,       \* hpay[h]: the handler's local variable `payment`
    hcreate,    \* hcreate[h]: what repo.Create returned to handler h
    hresp,      \* hresp[h]: the HTTP response handler h wrote
    orders,     \* the rows of the PostgreSQL orders table
    spc,        \* spc[s]: position of saga s inside Orders.CreateOrder
    sorder,     \* sorder[s]: the saga's local variable `order`
    spay,       \* spay[s]: paymentResp.Payment as the payment client returned it
    scall,      \* scall[s]: how paymentClient.ProcessPayment ended for saga s
    sresp,      \* sresp[s]: the HTTP response saga s wrote
    sfail,      \* sfail[s]: the order-repository calls of saga s that returned an error
    ssent,      \* ssent[s]: the payment requests saga s handed to the payment client
    heap,           \* heap[c]: the Payment struct that pointer c refers to
    paymentList,    \* data.paymentList: the pointers appended by CreatePayment
    nextID,         \* data.nextID
    idempotencyMap, \* data.idempotencyMap: idempotency key -> payment id
    clock,          \* the reading of time.Now()
    mreq,           \* mreq[c]: the candidate as passed to CreatePayment
    merr,           \* merr[c]: what CreatePayment(c) returned
    mproc,          \* the last data.ProcessPayment call and its effect
    tpc,        \* tpc[s]: position of order request s on the order service's server
    telapsed,   \* telapsed[s]: seconds since the server read the request's headers
    tcall,      \* tcall[s]: how the payment call of request s ended
    tseen,      \* tseen[s]: what the sender of request s received
    mview,      \* the last lookup in the in-memory ledger and what it returned
    rcall       \* the last direct call of the order repository and its error

ledgerVars == <<payments, hpc, hpay, hcreate, hresp>>
sagaVars == <<orders, spc, sorder, spay, scall, sresp, sfail, ssent>>
memVars == <<heap, paymentList, nextID, idempotencyMap, clock, mreq, merr, mproc>>
timeVars == <<tpc, telapsed, tcall, tseen>>
probeVars == <<mview, rcall>>
vars == <<payments, hpc, hpay, hcreate, hresp,
          orders, spc, sorder, spay, scall, sresp, sfail, ssent,
          heap, paymentList, nextID, idempotencyMap, clock, mreq, merr, mproc,
          tpc, telapsed, tcall, tseen, mview, rcall>>

NoPayment == [id |-> 0]
NoResponse == [code |-> 0, data |-> NoPayment, error |-> ""]

\* data.Payment after the validation middleware decoded the request body.
RequestPayment(order, amount, key) ==
    [id |-> 0, order_id |-> order, amount |-> amount, status |-> "",
     currency |-> "USD", method |-> "credit_card", customer_id |-> "cust_0",
     idempotency_key |-> key, transaction_id |-> Null, error_message |-> Null,
     created_at |-> Null, processed_at |-> Null, failed_at |-> Null]

\* validateCurrency and validatePaymentMethod: the accepted codes.
validCurrencies == {"USD", "EUR", "GBP", "AED", "SAR", "EGP"}
validMethods ==
    {"credit_card", "debit_card", "paypal", "bank_transfer", "apple_pay"}

\* Mutant of Validate: the currency tag is not checked.
ValidateIgnoresCurrency(p) ==
    IF p.amount <= 0 THEN "Amount"
    ELSE IF p.method \notin validMethods THEN "Method"
    ELSE IF p.customer_id = "" THEN "CustomerID"
    ELSE IF p.idempotency_key = <<0, 0>> THEN "IdempotencyKey"
    ELSE ""

\* Payment.Validate: the field that fails its tag, "" when none does.
\* (required,gt=0 on Amount; required,currency; required,payment_method;
\* required on CustomerID and IdempotencyKey, the empty key being <<0, 0>>.
\* Order ids are numbers here and always present.)
Validate(p) ==
    IF p.amount <= 0 THEN "Amount"
    ELSE IF p.currency \notin validCurrencies THEN "Currency"
    ELSE IF p.method \notin validMethods THEN "Method"
    ELSE IF p.customer_id = "" THEN "CustomerID"
    ELSE IF p.idempotency_key = <<0, 0>> THEN "IdempotencyKey"
    ELSE ""

\* Request bodies a direct caller may post: one valid, the others each
\* failing one tag.
RawBodies ==
    { RequestPayment(0, 25, <<0, 1>>),
      [RequestPayment(0, 0, <<0, 1>>) EXCEPT !.currency = "EUR"],
      [RequestPayment(0, 120, <<0, 1>>) EXCEPT !.currency = "XYZ"],
      [RequestPayment(0, 25, <<0, 2>>) EXCEPT !.method = "cash"],
      [RequestPayment(0, 25, <<0, 2>>) EXCEPT !.customer_id = ""],
      RequestPayment(0, 25, <<0, 0>>) }

\* ------------------------------------------------------ payment repository
\* repository.GetByIdempotencyKey: the rows WHERE idempotency_key = key.
GetByIdempotencyKey(key) == {p \in payments : p.idempotency_key = key}

\* repository.GetByID: the rows WHERE id = id.
GetByID(id) == {p \in payments : p.id = id}

\* Mutant of UniqueViolation: the table without UNIQUE on idempotency_key.
PrimaryKeyOnly(p) == \E q \in payments : q.id = p.id

\* The payments table's constraints: id PRIMARY KEY, idempotency_key UNIQUE.
UniqueViolation(p) ==
    \/ \E q \in payments : q.idempotency_key = p.idempotency_key
    \/ \E q \in payments : q.id = p.id

\* data.GeneratePaymentID: "pay_" + a fresh uuid.
GeneratePaymentID(h) == h

\* Mutant of simulatePaymentGateway: the ceiling itself is declined.
simulatePaymentGatewayAtCeiling(amount) ==
    ~(amount = DeclineSentinel \/ amount >= AmountCeiling)

\* data.simulatePaymentGateway: TRUE when the gateway accepts.
simulatePaymentGateway(amount) ==
    ~(amount = DeclineSentinel \/ amount > AmountCeiling)

\* data.ProcessPaymentGateway: the payment after the gateway decided.
ProcessPaymentGateway(p) ==
    IF simulatePaymentGateway(p.amount)
    THEN [p EXCEPT !.status = PaymentStatusCompleted,
                   !.processed_at = Stamp,
                   !.transaction_id = "txn"]
    ELSE [p EXCEPT !.status = PaymentStatusFailed,
                   !.failed_at = Stamp,
                   !.error_message = DeclineMessage]

\* respondJSON(w, status, data)
respondJSON(code, data) == [code |-> code, data |-> data, error |-> ""]
\* respondError(w, status, message)
respondError(code, message) == [code |-> code, data |-> NoPayment, error |-> message]

\* --------------------------------------------------------- payment service
\* A request reaches POST /payments and passes the validation middleware.
Arrive(h, p) ==
    /\ hpc[h] = "idle"
    /\ hpc' = [hpc EXCEPT ![h] = "check"]
    /\ hpay' = [hpay EXCEPT ![h] = p]
    /\ UNCHANGED <<payments, hcreate, hresp>>

\* Payments.MiddlewarePaymentValidation: decode, Validate, and either answer
\* 400 or hand the payment to ProcessPayment through the request context.
MiddlewarePaymentValidation(h, body) ==
    /\ h \in Callers
    /\ hpc[h] = "idle"
    /\ IF Validate(body) # ""
       THEN /\ hresp' = [hresp EXCEPT ![h] =
                   respondError(400, "Validation error: " \o Validate(body))]
            /\ hpc' = [hpc EXCEPT ![h] = "done"]
            /\ UNCHANGED <<payments, hpay, hcreate>>
       ELSE Arrive(h, body)

\* A step of the payment service leaves the order service alone.
PaymentStep(A) ==
    A /\ UNCHANGED sagaVars /\ UNCHANGED memVars /\ UNCHANGED timeVars
      /\ UNCHANGED probeVars

\* A direct caller submits a payment with an idempotency key of its choice.
CallerSubmit(h) ==
    /\ h \in Callers
    /\ \E key \in CallerKeys, input \in CallerInputs :
          Arrive(h, [RequestPayment(0, input[1], key) EXCEPT
                        !.method = input[2]])

\* ProcessPayment, first part: the duplicate pre-check, and on a miss the
\* id, status and creation time of the new payment.
PayCheck(h) ==
    /\ hpc[h] = "check"
    /\ LET found == GetByIdempotencyKey(hpay[h].idempotency_key) IN
       IF found # {}
       THEN /\ \E existing \in found :
                 hresp' = [hresp EXCEPT ![h] = respondJSON(200, existing)]
            /\ hpc' = [hpc EXCEPT ![h] = "done"]
            /\ UNCHANGED <<payments, hpay, hcreate>>
       ELSE /\ hpay' = [hpay EXCEPT ![h] =
                           [@ EXCEPT !.id = GeneratePaymentID(h),
                                     !.status = PaymentStatusPending,
                                     !.created_at = Stamp]]
            /\ hpc' = [hpc EXCEPT ![h] = "insert"]
            /\ UNCHANGED <<payments, hcreate, hresp>>

\* ProcessPayment, second part: repo.Create(&payment), the INSERT.  dbok
\* is FALSE when the statement fails for a reason other than a constraint.
PayInsert(h, dbok) ==
    /\ hpc[h] = "insert"
    /\ IF ~dbok
       THEN /\ hcreate' = [hcreate EXCEPT ![h] = "failed to create payment"]
            /\ hresp' = [hresp EXCEPT ![h] =
                            respondError(500, "Failed to create payment")]
            /\ hpc' = [hpc EXCEPT ![h] = "done"]
            /\ UNCHANGED <<payments, hpay>>
       ELSE IF UniqueViolation(hpay[h])
       THEN /\ hcreate' = [hcreate EXCEPT ![h] = ErrDuplicateIdempotencyKey]
            /\ hresp' = [hresp EXCEPT ![h] =
                            respondError(500, "Failed to create payment")]
            /\ hpc' = [hpc EXCEPT ![h] = "done"]
            /\ UNCHANGED <<payments, hpay>>
       ELSE /\ payments' = payments \cup {hpay[h]}
            /\ hcreate' = [hcreate EXCEPT ![h] = "ok"]
            /\ hpc' = [hpc EXCEPT ![h] = "resolve"]
            /\ UNCHANGED <<hpay, hresp>>

\* Mutant of PayResolve: repo.UpdateStatus is never called.
PayResolveSkipsUpdate(h, dbok) ==
    /\ hpc[h] = "resolve"
    /\ LET processedPayment == ProcessPaymentGateway(hpay[h])
       IN  /\ hpay' = [hpay EXCEPT ![h] = processedPayment]
           /\ hpc' = [hpc EXCEPT ![h] = "done"]
           /\ hresp' = [hresp EXCEPT ![h] =
                  IF processedPayment.status = PaymentStatusCompleted
                  THEN respondJSON(200, processedPayment)
                  ELSE respondError(402, DeclineMessage)]
           /\ UNCHANGED <<payments, hcreate>>

\* Mutant of PayResolve: the error of repo.UpdateStatus is only logged.
PayResolveIgnoresUpdateError(h, dbok) ==
    /\ hpc[h] = "resolve"
    /\ LET processedPayment == ProcessPaymentGateway(hpay[h])
           rows == GetByID(processedPayment.id)
       IN  /\ hpay' = [hpay EXCEPT ![h] = processedPayment]
           /\ hpc' = [hpc EXCEPT ![h] = "done"]
           /\ IF dbok /\ rows # {}
              THEN payments' = (payments \ rows) \cup
                        {[r EXCEPT !.status = processedPayment.status,
                                   !.transaction_id = processedPayment.transaction_id,
                                   !.error_message = processedPayment.error_message,
                                   !.processed_at = processedPayment.processed_at,
                                   !.failed_at = processedPayment.failed_at]
                           : r \in rows}
              ELSE UNCHANGED payments
           /\ hresp' = [hresp EXCEPT ![h] =
                  IF processedPayment.status = PaymentStatusCompleted
                  THEN respondJSON(200, processedPayment)
                  ELSE respondError(402, DeclineMessage)]
           /\ UNCHANGED hcreate

\* Mutant of PayResolve: repo.UpdateStatus without its WHERE id = $6.
PayResolveAllRows(h, dbok) ==
    /\ hpc[h] = "resolve"
    /\ LET processedPayment == ProcessPaymentGateway(hpay[h])
           rows == payments
       IN  /\ hpay' = [hpay EXCEPT ![h] = processedPayment]
           /\ hpc' = [hpc EXCEPT ![h] = "done"]
           /\ IF dbok /\ rows # {}
              THEN /\ payments' = (payments \ rows) \cup
                        {[r EXCEPT !.status = processedPayment.status,
                                   !.transaction_id = processedPayment.transaction_id,
                                   !.error_message = processedPayment.error_message,
                                   !.processed_at = processedPayment.processed_at,
                                   !.failed_at = processedPayment.failed_at]
                           : r \in rows}
                   /\ hresp' = [hresp EXCEPT ![h] =
                          IF processedPayment.status = PaymentStatusCompleted
                          THEN respondJSON(200, processedPayment)
                          ELSE respondError(402, DeclineMessage)]
              ELSE /\ UNCHANGED payments
                   /\ hresp' = [hresp EXCEPT ![h] =
                          respondError(500, "Payment created but failed to process")]
           /\ UNCHANGED hcreate

\* ProcessPayment, third part: the gateway call, repo.UpdateStatus and the
\* response.
PayResolve(h, dbok) ==
    /\ hpc[h] = "resolve"
    /\ LET processedPayment == ProcessPaymentGateway(hpay[h])
           rows == GetByID(processedPayment.id)
       IN  /\ hpay' = [hpay EXCEPT ![h] = processedPayment]
           /\ hpc' = [hpc EXCEPT ![h] = "done"]
           /\ IF dbok /\ rows # {}
              THEN /\ payments' = (payments \ rows) \cup
                        {[r EXCEPT !.status = processedPayment.status,
                                   !.transaction_id = processedPayment.transaction_id,
                                   !.error_message = processedPayment.error_message,
                                   !.processed_at = processedPayment.processed_at,
                                   !.failed_at = processedPayment.failed_at]
                           : r \in rows}
                   /\ hresp' = [hresp EXCEPT ![h] =
                          IF processedPayment.status = PaymentStatusCompleted
                          THEN respondJSON(200, processedPayment)
                          ELSE respondError(402, DeclineMessage)]
              ELSE /\ UNCHANGED payments
                   /\ hresp' = [hresp EXCEPT ![h] =
                          respondError(500, "Payment created but failed to process")]
           /\ UNCHANGED hcreate

\* ------------------------------------------------------------ order service
NoOrder == [id |-> 0]
NoOrderResponse == [code |-> 0, order |-> NoOrder, error |-> ""]

\* The products table: price and availability by product id.
Catalog ==
    [coffee  |-> [price |-> 25,  available |-> TRUE],
     filter  |-> [price |-> 5,   available |-> TRUE],
     grinder |-> [price |-> 333, available |-> TRUE],
     sample  |-> [price |-> 0,   available |-> TRUE],
     retired |-> [price |-> 40,  available |-> FALSE]]

\* A validated CreateOrderRequest body; items are <<product id, quantity,
\* unit price>>, the price being a field the client may add to the JSON and
\* that OrderItemRequest does not decode.  Amounts are whole numbers.
OrderRequest(customer, currency, method, items) ==
    [customer_id |-> customer, currency |-> currency,
     payment_method |-> method, items |-> items]

\* The request bodies the clients send.
OrderRequests ==
    { OrderRequest("cust_a", "USD", "credit_card",
                   << <<"coffee", 2, 1>>, <<"filter", 1, 5>> >>),
      OrderRequest("cust_b", "EGP", "debit_card", << <<"grinder", 2, 333>> >>),
      OrderRequest("cust_a", "USD", "credit_card",
                   << <<"coffee", 1, 25>>, <<"retired", 1, 40>> >>),
      OrderRequest("cust_b", "EUR", "apple_pay", << <<"sample", 1, 9>> >>),
      OrderRequest("cust_a", "USD", "credit_card", << <<"ghost", 1, 1>> >>) }

\* repository.GetProduct
ProductExists(id) == id \in DOMAIN Catalog

\* Orders.buildOrderFromRequest: the error of the first item that fails, or
\* "" when every item is priced.
RECURSIVE BuildError(_)
BuildError(items) ==
    IF items = <<>> THEN ""
    ELSE IF ~ProductExists(Head(items)[1]) THEN "product not found"
    ELSE IF ~Catalog[Head(items)[1]].available THEN "product unavailable"
    ELSE BuildError(Tail(items))

\* Mutant of orderItem: the line is priced with the unit price the client
\* sent.
orderItemClientPrice(itemReq) ==
    [product_id |-> itemReq[1], quantity |-> itemReq[2],
     unit_price |-> itemReq[3], subtotal |-> itemReq[3] * itemReq[2]]

\* The data.OrderItem buildOrderFromRequest makes of one request line: the
\* product's own price, and the subtotal from it.
orderItem(itemReq) ==
    [product_id |-> itemReq[1], quantity |-> itemReq[2],
     unit_price |-> Catalog[itemReq[1]].price,
     subtotal |-> Catalog[itemReq[1]].price * itemReq[2]]

\* Orders.buildOrderFromRequest: order.Items for the request lines.
RECURSIVE BuildItems(_)
BuildItems(items) ==
    IF items = <<>> THEN <<>>
    ELSE <<orderItem(Head(items))>> \o BuildItems(Tail(items))

\* Order.CalculateTotal over order.Items: every subtotal is computed anew as
\* quantity times unit price and added up.
RECURSIVE CalculateTotal(_)
CalculateTotal(items) ==
    IF items = <<>> THEN 0
    ELSE Head(items).quantity * Head(items).unit_price
         + CalculateTotal(Tail(items))

\* data.GenerateOrderID: "ord_" + a fresh uuid.
GenerateOrderID(s) == s

\* Mutant of GenerateIdempotencyKey: a key that embeds neither the order id
\* nor a fresh value.
SharedIdempotencyKey(orderID, s) == <<0, 1>>

\* data.GenerateIdempotencyKey: "idem_" + orderID + "_" + a fresh uuid.
GenerateIdempotencyKey(orderID, s) == <<orderID, s>>

\* Mutant of PaymentRequestOf: every request carries the same order id.
PaymentRequestSharedOrder(order, s) ==
    [RequestPayment(1, order.total_amount,
                    GenerateIdempotencyKey(order.id, s))
        EXCEPT !.currency = order.currency,
               !.method = order.payment_method,
               !.customer_id = order.customer_id]

\* Mutant of PaymentRequestOf: currency, method and customer are left at
\* fixed values instead of being copied from the order.
PaymentRequestDefaults(order, s) ==
    RequestPayment(order.id, order.total_amount,
                   GenerateIdempotencyKey(order.id, s))

\* The payment.PaymentRequest CreateOrder builds from the persisted order.
PaymentRequestOf(order, s) ==
    [RequestPayment(order.id, order.total_amount,
                    GenerateIdempotencyKey(order.id, s))
        EXCEPT !.currency = order.currency,
               !.method = order.payment_method,
               !.customer_id = order.customer_id]

\* Mutant of UpdateStatus: the UPDATE also clears the payment reference.
UpdateStatusClearsReference(id, status) ==
    {IF o.id = id
     THEN [o EXCEPT !.status = status, !.payment_id = NoPayment.id]
     ELSE o : o \in orders}

\* Mutant of UpdateStatus: the UPDATE without its WHERE id = $1.
UpdateStatusAllRows(id, status) ==
    {[o EXCEPT !.status = status] : o \in orders}

\* OrderRepository.UpdateStatus: the table after the UPDATE.
UpdateStatus(id, status) ==
    {IF o.id = id THEN [o EXCEPT !.status = status] ELSE o : o \in orders}

\* Mutant of UpdatePaymentID: the UPDATE without its WHERE id = $3.
UpdatePaymentIDAllRows(id, paymentID) ==
    {[o EXCEPT !.payment_id = paymentID] : o \in orders}

\* OrderRepository.UpdatePaymentID: the table after the UPDATE.
UpdatePaymentID(id, paymentID) ==
    {IF o.id = id THEN [o EXCEPT !.payment_id = paymentID] ELSE o : o \in orders}

orderResponse(code, order) == [code |-> code, order |-> order, error |-> ""]
orderError(code, message) == [code |-> code, order |-> NoOrder, error |-> message]

\* A step of the order service that leaves the payment service alone.
OrderStep(A) ==
    A /\ UNCHANGED ledgerVars /\ UNCHANGED memVars /\ UNCHANGED timeVars
      /\ UNCHANGED probeVars

\* The order CreateOrder builds for request body req.
BuiltOrder(s, req) ==
    [id |-> GenerateOrderID(s), status |-> OrderStatusPending,
     payment_id |-> NoPayment.id,
     customer_id |-> req.customer_id,
     currency |-> req.currency,
     payment_method |-> req.payment_method,
     items |-> BuildItems(req.items),
     total_amount |-> CalculateTotal(BuildItems(req.items))]

\* Mutant of SagaCreate: a failed INSERT is logged and the saga goes on to
\* the payment call.
SagaCreateIgnoresCreateError(s, req, dbok) ==
    /\ spc[s] = "start"
    /\ IF BuildError(req.items) # ""
       THEN /\ sresp' = [sresp EXCEPT ![s] = orderError(400, BuildError(req.items))]
            /\ spc' = [spc EXCEPT ![s] = "done"]
            /\ UNCHANGED <<orders, sorder, sfail>>
       ELSE IF BuiltOrder(s, req).total_amount <= 0
       THEN /\ sresp' = [sresp EXCEPT ![s] = orderError(400, "Invalid order total")]
            /\ spc' = [spc EXCEPT ![s] = "done"]
            /\ UNCHANGED <<orders, sorder, sfail>>
       ELSE /\ orders' = IF dbok THEN orders \cup {BuiltOrder(s, req)} ELSE orders
            /\ sfail' = [sfail EXCEPT ![s] = IF dbok THEN @ ELSE @ \cup {"Create"}]
            /\ sorder' = [sorder EXCEPT ![s] = BuiltOrder(s, req)]
            /\ spc' = [spc EXCEPT ![s] = "invoke"]
            /\ UNCHANGED sresp
    /\ UNCHANGED <<spay, scall, ssent>>

\* Mutant of SagaCreate: the total is validated after the INSERT.
SagaCreateValidatesLate(s, req, dbok) ==
    /\ spc[s] = "start"
    /\ IF BuildError(req.items) # ""
       THEN /\ sresp' = [sresp EXCEPT ![s] = orderError(400, BuildError(req.items))]
            /\ spc' = [spc EXCEPT ![s] = "done"]
            /\ UNCHANGED <<orders, sorder, sfail>>
       ELSE IF ~dbok
       THEN /\ sresp' = [sresp EXCEPT ![s] = orderError(500, "Failed to create order")]
            /\ spc' = [spc EXCEPT ![s] = "done"]
            /\ sorder' = [sorder EXCEPT ![s] = BuiltOrder(s, req)]
            /\ sfail' = [sfail EXCEPT ![s] = @ \cup {"Create"}]
            /\ UNCHANGED orders
       ELSE /\ orders' = orders \cup {BuiltOrder(s, req)}
            /\ sorder' = [sorder EXCEPT ![s] = BuiltOrder(s, req)]
            /\ IF BuiltOrder(s, req).total_amount <= 0
               THEN /\ sresp' = [sresp EXCEPT ![s] =
                                    orderError(400, "Invalid order total")]
                    /\ spc' = [spc EXCEPT ![s] = "done"]
               ELSE /\ spc' = [spc EXCEPT ![s] = "invoke"]
                    /\ UNCHANGED sresp
            /\ UNCHANGED sfail
    /\ UNCHANGED <<spay, scall, ssent>>

\* CreateOrder up to the INSERT of the pending order: build the order from
\* the catalog, reject an invalid one, persist it.
SagaCreate(s, req, dbok) ==
    /\ spc[s] = "start"
    /\ LET order == BuiltOrder(s, req)
       IN  IF BuildError(req.items) # ""
           THEN /\ sresp' = [sresp EXCEPT ![s] = orderError(400, BuildError(req.items))]
                /\ spc' = [spc EXCEPT ![s] = "done"]
                /\ UNCHANGED <<orders, sorder, sfail>>
           ELSE IF order.total_amount <= 0
           THEN /\ sresp' = [sresp EXCEPT ![s] = orderError(400, "Invalid order total")]
                /\ spc' = [spc EXCEPT ![s] = "done"]
                /\ UNCHANGED <<orders, sorder, sfail>>
           ELSE IF ~dbok \/ (\E o \in orders : o.id = order.id)
           THEN /\ sresp' = [sresp EXCEPT ![s] = orderError(500, "Failed to create order")]
                /\ spc' = [spc EXCEPT ![s] = "done"]
                /\ sorder' = [sorder EXCEPT ![s] = order]
                /\ sfail' = [sfail EXCEPT ![s] = @ \cup {"Create"}]
                /\ UNCHANGED orders
           ELSE /\ orders' = orders \cup {order}
                /\ sorder' = [sorder EXCEPT ![s] = order]
                /\ spc' = [spc EXCEPT ![s] = "invoke"]
                /\ UNCHANGED <<sresp, sfail>>
    /\ UNCHANGED <<spay, scall, ssent>>

\* CreateOrder calls paymentClient.ProcessPayment: the request reaches the
\* payment service, or the connection fails and the client returns an error.
SagaInvoke(s, delivered) ==
    /\ spc[s] = "invoke"
    /\ IF delivered
       THEN /\ Arrive(s, PaymentRequestOf(sorder[s], s))
            /\ spc' = [spc EXCEPT ![s] = "wait"]
            /\ UNCHANGED scall
       ELSE /\ spc' = [spc EXCEPT ![s] = "payerr"]
            /\ scall' = [scall EXCEPT ![s] = "unreachable"]
            /\ UNCHANGED ledgerVars
    /\ ssent' = [ssent EXCEPT ![s] = Append(@, PaymentRequestOf(sorder[s], s))]
    /\ UNCHANGED <<orders, sorder, spay, sresp, sfail>>
    /\ UNCHANGED memVars
    /\ UNCHANGED timeVars
    /\ UNCHANGED probeVars

\* The payment client's timeout fires (or the response is lost) while the
\* payment service is still at work or has answered already.
SagaTimeout(s) ==
    /\ spc[s] = "wait"
    /\ spc' = [spc EXCEPT ![s] = "payerr"]
    /\ scall' = [scall EXCEPT ![s] = "timeout"]
    /\ UNCHANGED <<orders, sorder, spay, sresp, sfail, ssent>>

\* Mutant of SagaReceive: only 5xx answers are errors; the body of a 402
\* decodes to a zero-valued payment.
SagaReceiveFrom500(s) ==
    /\ spc[s] = "wait"
    /\ hpc[s] = "done"
    /\ IF hresp[s].code >= 500
       THEN /\ spc' = [spc EXCEPT ![s] = "payerr"]
            /\ scall' = [scall EXCEPT ![s] = "status"]
            /\ UNCHANGED spay
       ELSE /\ spc' = [spc EXCEPT ![s] = "patchref"]
            /\ scall' = [scall EXCEPT ![s] = "ok"]
            /\ spay' = [spay EXCEPT ![s] =
                   IF hresp[s].code < 400 THEN hresp[s].data
                   ELSE RequestPayment(0, 0, <<0, 0>>)]
    /\ UNCHANGED <<orders, sorder, sresp, sfail, ssent>>

\* Client.ProcessPayment reads the response: a status of 400 or above is
\* returned as an error, anything else as the payment in "data".
SagaReceive(s) ==
    /\ spc[s] = "wait"
    /\ hpc[s] = "done"
    /\ IF hresp[s].code >= 400
       THEN /\ spc' = [spc EXCEPT ![s] = "payerr"]
            /\ scall' = [scall EXCEPT ![s] = "status"]
            /\ UNCHANGED spay
       ELSE /\ spc' = [spc EXCEPT ![s] = "patchref"]
            /\ scall' = [scall EXCEPT ![s] = "ok"]
            /\ spay' = [spay EXCEPT ![s] = hresp[s].data]
    /\ UNCHANGED <<orders, sorder, sresp, sfail, ssent>>

\* Mutant of SagaPayErr: the branch deletes the order row as compensation.
SagaPayErrCompensates(s, dbok) ==
    /\ spc[s] = "payerr"
    /\ orders' = IF dbok THEN {o \in orders : o.id # sorder[s].id} ELSE orders
    /\ sfail' = [sfail EXCEPT ![s] = IF dbok THEN @ ELSE @ \cup {"UpdateStatus"}]
    /\ sorder' = [sorder EXCEPT ![s].status = OrderStatusFailed]
    /\ sresp' = [sresp EXCEPT ![s] = orderError(503, "Payment service unavailable")]
    /\ spc' = [spc EXCEPT ![s] = "done"]
    /\ UNCHANGED <<spay, scall, ssent>>

\* Mutant of SagaPayErr: the branch responds without patching the order.
SagaPayErrNoPatch(s, dbok) ==
    /\ spc[s] = "payerr"
    /\ sorder' = [sorder EXCEPT ![s].status = OrderStatusFailed]
    /\ sresp' = [sresp EXCEPT ![s] = orderError(503, "Payment service unavailable")]
    /\ spc' = [spc EXCEPT ![s] = "done"]
    /\ UNCHANGED <<orders, sfail, spay, scall, ssent>>

\* Mutant of SagaPayErr: the branch patches the order to paid.
SagaPayErrWrongStatus(s, dbok) ==
    /\ spc[s] = "payerr"
    /\ orders' = IF dbok THEN UpdateStatus(sorder[s].id, OrderStatusPaid)
                 ELSE orders
    /\ sfail' = [sfail EXCEPT ![s] = IF dbok THEN @ ELSE @ \cup {"UpdateStatus"}]
    /\ sorder' = [sorder EXCEPT ![s].status = OrderStatusFailed]
    /\ sresp' = [sresp EXCEPT ![s] = orderError(503, "Payment service unavailable")]
    /\ spc' = [spc EXCEPT ![s] = "done"]
    /\ UNCHANGED <<spay, scall, ssent>>

\* Mutant of SagaPayErr: the failed payment call is attempted again.
SagaPayErrRetries(s, dbok) ==
    /\ spc[s] = "payerr"
    /\ spc' = [spc EXCEPT ![s] = "invoke"]
    /\ UNCHANGED <<orders, sorder, sresp, sfail, spay, scall, ssent>>

\* CreateOrder, the branch taken when the payment client returned an error.
SagaPayErr(s, dbok) ==
    /\ spc[s] = "payerr"
    /\ orders' = IF dbok THEN UpdateStatus(sorder[s].id, OrderStatusFailed)
                 ELSE orders
    /\ sfail' = [sfail EXCEPT ![s] = IF dbok THEN @ ELSE @ \cup {"UpdateStatus"}]
    /\ sorder' = [sorder EXCEPT ![s].status = OrderStatusFailed]
    /\ sresp' = [sresp EXCEPT ![s] = orderError(503, "Payment service unavailable")]
    /\ spc' = [spc EXCEPT ![s] = "done"]
    /\ UNCHANGED <<spay, scall, ssent>>

\* Mutant of SagaPatchRef: the payment id is set on the local order only.
SagaPatchRefLocalOnly(s, dbok) ==
    /\ spc[s] = "patchref"
    /\ sorder' = [sorder EXCEPT ![s].payment_id = spay[s].id]
    /\ spc' = [spc EXCEPT ![s] = "patchstatus"]
    /\ UNCHANGED <<orders, sfail, spay, scall, sresp, ssent>>

\* CreateOrder records the payment id on the order.
SagaPatchRef(s, dbok) ==
    /\ spc[s] = "patchref"
    /\ sorder' = [sorder EXCEPT ![s].payment_id = spay[s].id]
    /\ orders' = IF dbok THEN UpdatePaymentID(sorder[s].id, spay[s].id)
                 ELSE orders
    /\ sfail' = [sfail EXCEPT ![s] = IF dbok THEN @ ELSE @ \cup {"UpdatePaymentID"}]
    /\ spc' = [spc EXCEPT ![s] = "patchstatus"]
    /\ UNCHANGED <<spay, scall, sresp, ssent>>

\* Mutant of SagaPatchStatus: the status is set on the local order only.
SagaPatchStatusNoWrite(s, dbok) ==
    /\ spc[s] = "patchstatus"
    /\ IF spay[s].status = PaymentStatusCompleted
       THEN /\ sorder' = [sorder EXCEPT ![s].status = OrderStatusPaid]
            /\ sresp' = [sresp EXCEPT ![s] =
                   orderResponse(201, [sorder[s] EXCEPT !.status = OrderStatusPaid])]
       ELSE /\ sorder' = [sorder EXCEPT ![s].status = OrderStatusFailed]
            /\ sresp' = [sresp EXCEPT ![s] =
                   orderError(402, spay[s].error_message)]
    /\ spc' = [spc EXCEPT ![s] = "done"]
    /\ UNCHANGED <<orders, sfail, spay, scall, ssent>>

\* CreateOrder sets the terminal status from the payment's status and
\* responds.
SagaPatchStatus(s, dbok) ==
    /\ spc[s] = "patchstatus"
    /\ IF spay[s].status = PaymentStatusCompleted
       THEN /\ orders' = IF dbok THEN UpdateStatus(sorder[s].id, OrderStatusPaid)
                         ELSE orders
            /\ sorder' = [sorder EXCEPT ![s].status = OrderStatusPaid]
            /\ sresp' = [sresp EXCEPT ![s] =
                   orderResponse(201, [sorder[s] EXCEPT !.status = OrderStatusPaid])]
       ELSE /\ orders' = IF dbok THEN UpdateStatus(sorder[s].id, OrderStatusFailed)
                         ELSE orders
            /\ sorder' = [sorder EXCEPT ![s].status = OrderStatusFailed]
            /\ sresp' = [sresp EXCEPT ![s] =
                   orderError(402, spay[s].error_message)]
    /\ sfail' = [sfail EXCEPT ![s] = IF dbok THEN @ ELSE @ \cup {"UpdateStatus"}]
    /\ spc' = [spc EXCEPT ![s] = "done"]
    /\ UNCHANGED <<spay, scall, ssent>>

\* ------------------------------------------------------- in-memory ledger
Candidates == 1..MaxCandidates
MemKeys == {<<0, k>> : k \in 1..MaxKeys}
\* The order reference and amount of the candidates: one the gateway
\* accepts and one it declines, for different orders.
MemInputs == {<<100, 25>>, <<101, DeclineSentinel>>}
NoCall == [id |-> 0, err |-> "", before |-> NoPayment, after |-> NoPayment]

\* data.Now / time.Now().UTC() as the in-memory ledger reads it.
Now == ToString(clock)

\* data.generateID: "pay_%d" of nextID.
generateID == nextID

\* data.findPayment / data.getPaymentByID: the pointers in paymentList whose
\* struct carries the id, in list order (the loop returns the first).
findPayment(id) ==
    SelectSeq(paymentList, LAMBDA c : heap[c].id = id)

\* Mutant of MemCreatePayment: the duplicate branch returns the error
\* without copying the existing payment into the caller's struct.
MemCreatePaymentNoCopy(c, order, amount, key) ==
    /\ heap[c] = NoPayment
    /\ mreq' = [mreq EXCEPT ![c] = RequestPayment(order, amount, key)]
    /\ IF key \in DOMAIN idempotencyMap
       THEN /\ heap' = [heap EXCEPT ![c] = RequestPayment(order, amount, key)]
            /\ merr' = [merr EXCEPT ![c] = ErrDuplicateIdempotencyKey]
            /\ UNCHANGED <<paymentList, nextID, idempotencyMap>>
       ELSE /\ heap' = [heap EXCEPT ![c] =
                   [RequestPayment(order, amount, key) EXCEPT
                       !.id = nextID,
                       !.status = PaymentStatusPending,
                       !.created_at = Now]]
            /\ nextID' = nextID + 1
            /\ paymentList' = Append(paymentList, c)
            /\ idempotencyMap' =
                   [k \in DOMAIN idempotencyMap \cup {key} |->
                       IF k = key THEN nextID ELSE idempotencyMap[k]]
            /\ merr' = [merr EXCEPT ![c] = "ok"]
    /\ UNCHANGED <<clock, mproc>>

\* Mutant of MemCreatePayment: the key is not entered in the index.
MemCreatePaymentNoIndex(c, order, amount, key) ==
    /\ heap[c] = NoPayment
    /\ mreq' = [mreq EXCEPT ![c] = RequestPayment(order, amount, key)]
    /\ IF key \in DOMAIN idempotencyMap
       THEN LET existing == findPayment(idempotencyMap[key]) IN
            /\ existing # <<>>
            /\ heap' = [heap EXCEPT ![c] = heap[Head(existing)]]
            /\ merr' = [merr EXCEPT ![c] = ErrDuplicateIdempotencyKey]
            /\ UNCHANGED <<paymentList, nextID, idempotencyMap>>
       ELSE /\ heap' = [heap EXCEPT ![c] =
                   [RequestPayment(order, amount, key) EXCEPT
                       !.id = generateID,
                       !.status = PaymentStatusPending,
                       !.created_at = Now]]
            /\ nextID' = nextID + 1
            /\ paymentList' = Append(paymentList, c)
            /\ merr' = [merr EXCEPT ![c] = "ok"]
            /\ UNCHANGED idempotencyMap
    /\ UNCHANGED <<clock, mproc>>

\* Mutant of MemCreatePayment: the id counter is not advanced.
MemCreatePaymentStaleCounter(c, order, amount, key) ==
    /\ heap[c] = NoPayment
    /\ mreq' = [mreq EXCEPT ![c] = RequestPayment(order, amount, key)]
    /\ IF key \in DOMAIN idempotencyMap
       THEN LET existing == findPayment(idempotencyMap[key]) IN
            /\ existing # <<>>
            /\ heap' = [heap EXCEPT ![c] = heap[Head(existing)]]
            /\ merr' = [merr EXCEPT ![c] = ErrDuplicateIdempotencyKey]
            /\ UNCHANGED <<paymentList, idempotencyMap>>
       ELSE /\ heap' = [heap EXCEPT ![c] =
                   [RequestPayment(order, amount, key) EXCEPT
                       !.id = generateID,
                       !.status = PaymentStatusPending,
                       !.created_at = Now]]
            /\ paymentList' = Append(paymentList, c)
            /\ idempotencyMap' =
                   [k \in DOMAIN idempotencyMap \cup {key} |->
                       IF k = key THEN generateID ELSE idempotencyMap[k]]
            /\ merr' = [merr EXCEPT ![c] = "ok"]
    /\ UNCHANGED <<nextID, clock, mproc>>

\* The mutex-guarded body of data.CreatePayment(p), p pointing at struct c
\* that the caller filled with order, amount and key.
MemCreatePayment(c, order, amount, key) ==
    /\ heap[c] = NoPayment
    /\ mreq' = [mreq EXCEPT ![c] = RequestPayment(order, amount, key)]
    /\ IF key \in DOMAIN idempotencyMap
       THEN LET existing == findPayment(idempotencyMap[key]) IN
            /\ existing # <<>>
            /\ heap' = [heap EXCEPT ![c] = heap[Head(existing)]]
            /\ merr' = [merr EXCEPT ![c] = ErrDuplicateIdempotencyKey]
            /\ UNCHANGED <<paymentList, nextID, idempotencyMap>>
       ELSE /\ heap' = [heap EXCEPT ![c] =
                   [RequestPayment(order, amount, key) EXCEPT
                       !.id = generateID,
                       !.status = PaymentStatusPending,
                       !.created_at = Now]]
            /\ nextID' = nextID + 1
            /\ paymentList' = Append(paymentList, c)
            /\ idempotencyMap' =
                   [k \in DOMAIN idempotencyMap \cup {key} |->
                       IF k = key THEN generateID ELSE idempotencyMap[k]]
            /\ merr' = [merr EXCEPT ![c] = "ok"]
    /\ UNCHANGED <<clock, mproc>>

\* Mutant of Resolved: the gateway's decision is not looked at.
ResolvedAlwaysCompleted(p) ==
    [p EXCEPT !.status = PaymentStatusCompleted,
              !.processed_at = Now,
              !.transaction_id = "txn_" \o Now]

\* Mutant of Resolved: the processed timestamp is set on both outcomes.
ResolvedStampsBoth(p) ==
    IF simulatePaymentGateway(p.amount)
    THEN [p EXCEPT !.status = PaymentStatusCompleted,
                   !.processed_at = Now,
                   !.transaction_id = "txn_" \o Now]
    ELSE [p EXCEPT !.status = PaymentStatusFailed,
                   !.processed_at = Now,
                   !.failed_at = Now,
                   !.error_message = DeclineMessage]

\* The payment after data.ProcessPayment's gateway branch ran on it.
Resolved(p) ==
    IF simulatePaymentGateway(p.amount)
    THEN [p EXCEPT !.status = PaymentStatusCompleted,
                   !.processed_at = Now,
                   !.transaction_id = "txn_" \o Now]
    ELSE [p EXCEPT !.status = PaymentStatusFailed,
                   !.failed_at = Now,
                   !.error_message = DeclineMessage]

\* The mutex-guarded body of data.ProcessPayment(paymentID).
MemProcessPayment(id) ==
    /\ LET found == findPayment(id) IN
       IF found = <<>>
       THEN /\ mproc' = [id |-> id, err |-> ErrPaymentNotFound,
                         before |-> NoPayment, after |-> NoPayment]
            /\ UNCHANGED heap
       ELSE LET c == Head(found) IN
            IF heap[c].status = PaymentStatusCompleted
            THEN /\ mproc' = [id |-> id, err |-> ErrPaymentAlreadyProcessed,
                              before |-> heap[c], after |-> heap[c]]
                 /\ UNCHANGED heap
            ELSE /\ heap' = [heap EXCEPT ![c] = Resolved(heap[c])]
                 /\ mproc' = [id |-> id, err |-> "nil",
                              before |-> heap[c], after |-> Resolved(heap[c])]
    /\ UNCHANGED <<paymentList, nextID, idempotencyMap, clock, mreq, merr>>

\* Time passes between two calls.
MemTick ==
    /\ clock < MaxClock
    /\ clock' = clock + 1
    /\ UNCHANGED <<heap, paymentList, nextID, idempotencyMap, mreq, merr, mproc>>

\* A step of the in-memory ledger leaves both services alone.
MemStep(A) ==
    A /\ UNCHANGED ledgerVars /\ UNCHANGED sagaVars /\ UNCHANGED timeVars
      /\ UNCHANGED probeVars

\* What a lookup hands to its caller: the error and the *Payment, a pointer
\* to struct ptr; seen is what the struct held when the call returned.
NoView ==
    [op |-> "", id |-> 0, key |-> <<0, 0>>, err |-> "", ptr |-> 0,
     seen |-> NoPayment]

\* data.getPaymentByID: the element of paymentList with that id itself.
getPaymentByID(id) ==
    LET found == findPayment(id) IN
    IF found = <<>>
    THEN [err |-> ErrPaymentNotFound, ptr |-> 0, seen |-> NoPayment]
    ELSE [err |-> "nil", ptr |-> Head(found), seen |-> heap[Head(found)]]

\* data.GetPaymentByID(id)
MemGetPaymentByID(id) ==
    /\ mview' = [op |-> "GetPaymentByID", id |-> id, key |-> <<0, 0>>,
                 err |-> getPaymentByID(id).err,
                 ptr |-> getPaymentByID(id).ptr,
                 seen |-> getPaymentByID(id).seen]
    /\ UNCHANGED memVars

\* data.GetPaymentByIdempotencyKey(key)
MemGetPaymentByIdempotencyKey(key) ==
    /\ LET r == IF key \in DOMAIN idempotencyMap
                THEN getPaymentByID(idempotencyMap[key])
                ELSE [err |-> ErrPaymentNotFound, ptr |-> 0,
                      seen |-> NoPayment]
       IN  mview' = [op |-> "GetPaymentByIdempotencyKey", id |-> 0,
                     key |-> key, err |-> r.err, ptr |-> r.ptr,
                     seen |-> r.seen]
    /\ UNCHANGED memVars

\* A lookup leaves everything but its caller's view alone.
LookupStep(A) ==
    A /\ UNCHANGED ledgerVars /\ UNCHANGED sagaVars /\ UNCHANGED timeVars
      /\ UNCHANGED rcall

\* ------------------------------------- the order repository called directly
RepoIds == 1..(MaxSagas + 1)
NoRepoCall == [op |-> "", id |-> 0, arg |-> "", ran |-> FALSE, err |-> ""]

\* RowsAffected() of an UPDATE ... WHERE id = $3.
RowsAffected(id) == Cardinality({o \in orders : o.id = id})

\* Mutant of UpdateError: zero affected rows are not looked at.
UpdateErrorIgnoresRows(id, dbok) ==
    IF ~dbok THEN "failed to update order" ELSE "nil"

\* What UpdateStatus and UpdatePaymentID return: the wrapped error of a
\* failed statement, ErrOrderNotFound on zero affected rows, else nil.
UpdateError(id, dbok) ==
    IF ~dbok THEN "failed to update order"
    ELSE IF RowsAffected(id) = 0 THEN ErrOrderNotFound
    ELSE "nil"

\* OrderRepository.Create of a well-formed order.
RepoCreate(s, req) ==
    /\ BuildError(req.items) = ""
    /\ BuiltOrder(s, req).total_amount > 0
    /\ ~(\E o \in orders : o.id = BuiltOrder(s, req).id)
    /\ orders' = orders \cup {BuiltOrder(s, req)}
    /\ rcall' = [op |-> "Create", id |-> BuiltOrder(s, req).id, arg |-> "",
                 ran |-> TRUE, err |-> "nil"]

\* OrderRepository.UpdateStatus(id, status); dbok is FALSE when the
\* statement fails.
RepoUpdateStatus(id, status, dbok) ==
    /\ orders' = IF dbok THEN UpdateStatus(id, status) ELSE orders
    /\ rcall' = [op |-> "UpdateStatus", id |-> id, arg |-> status,
                 ran |-> dbok, err |-> UpdateError(id, dbok)]

\* OrderRepository.UpdatePaymentID(orderID, paymentID)
RepoUpdatePaymentID(id, paymentID, dbok) ==
    /\ orders' = IF dbok THEN UpdatePaymentID(id, paymentID) ELSE orders
    /\ rcall' = [op |-> "UpdatePaymentID", id |-> id,
                 arg |-> ToString(paymentID),
                 ran |-> dbok, err |-> UpdateError(id, dbok)]

\* A direct repository call touches the orders table only.
RepoStep(A) ==
    A /\ UNCHANGED <<spc, sorder, spay, scall, sresp, sfail, ssent>>
      /\ UNCHANGED ledgerVars /\ UNCHANGED memVars /\ UNCHANGED timeVars
      /\ UNCHANGED mview

Init ==
    /\ orders = {}
    /\ spc = [s \in Sagas |-> "start"]
    /\ sorder = [s \in Sagas |-> NoOrder]
    /\ spay = [s \in Sagas |-> NoPayment]
    /\ scall = [s \in Sagas |-> ""]
    /\ sresp = [s \in Sagas |-> NoOrderResponse]
    /\ sfail = [s \in Sagas |-> {}]
    /\ ssent = [s \in Sagas |-> <<>>]
    /\ payments = {}
    /\ hpc = [h \in Handlers |-> "idle"]
    /\ hpay = [h \in Handlers |-> NoPayment]
    /\ hcreate = [h \in Handlers |-> ""]
    /\ hresp = [h \in Handlers |-> NoResponse]
    /\ heap = [c \in Candidates |-> NoPayment]
    /\ paymentList = <<>>
    /\ nextID = 1
    /\ idempotencyMap = <<>>
    /\ clock = 1
    /\ mreq = [c \in Candidates |-> NoPayment]
    /\ merr = [c \in Candidates |-> ""]
    /\ mproc = NoCall
    /\ tpc = [s \in Sagas |-> "idle"]
    /\ telapsed = [s \in Sagas |-> 0]
    /\ tcall = [s \in Sagas |-> ""]
    /\ tseen = [s \in Sagas |-> 0]
    /\ mview = NoView
    /\ rcall = NoRepoCall

\* The payment service under direct, concurrent callers.
LedgerNext ==
    \/ \E h \in Callers : PaymentStep(CallerSubmit(h))
    \/ \E h \in Callers : PaymentStep(PayCheck(h))
    \/ \E h \in Callers, dbok \in BOOLEAN : PaymentStep(PayInsert(h, dbok))
    \/ \E h \in Callers, dbok \in BOOLEAN : PaymentStep(PayResolve(h, dbok))

LedgerSpec == Init /\ [][LedgerNext]_vars

\* Direct callers posting one accepted and one declined amount, with every
\* handler that has a step to take scheduled again and again (net/http runs
\* each on its own goroutine).
FairSubmit(h) ==
    /\ h \in Callers
    /\ \E key \in CallerKeys, amount \in {25, DeclineSentinel} :
          Arrive(h, RequestPayment(0, amount, key))

LedgerFairNext ==
    \/ \E h \in Callers : PaymentStep(FairSubmit(h))
    \/ \E h \in Callers : PaymentStep(PayCheck(h))
    \/ \E h \in Callers, dbok \in BOOLEAN : PaymentStep(PayInsert(h, dbok))
    \/ \E h \in Callers, dbok \in BOOLEAN : PaymentStep(PayResolve(h, dbok))

LedgerFairSpec ==
    /\ Init /\ [][LedgerFairNext]_vars
    /\ \A h \in Callers :
          /\ WF_vars(PaymentStep(PayCheck(h)))
          /\ WF_vars(\E dbok \in BOOLEAN : PaymentStep(PayInsert(h, dbok)))
          /\ WF_vars(\E dbok \in BOOLEAN : PaymentStep(PayResolve(h, dbok)))

\* The payment service behind its validation middleware.
ValidationNext ==
    \/ \E h \in Callers, body \in RawBodies :
          PaymentStep(MiddlewarePaymentValidation(h, body))
    \/ \E h \in Callers : PaymentStep(PayCheck(h))
    \/ \E h \in Callers, dbok \in BOOLEAN : PaymentStep(PayInsert(h, dbok))
    \/ \E h \in Callers, dbok \in BOOLEAN : PaymentStep(PayResolve(h, dbok))

ValidationSpec == Init /\ [][ValidationNext]_vars

\* ------------------------------------------ timeouts of an order request
\* The order service's server reads the headers of request s, sets the
\* write deadline of the connection WriteTimeout ahead, and CreateOrder
\* reaches the payment call.
TimedAccept(s) ==
    /\ tpc[s] = "idle"
    /\ tpc' = [tpc EXCEPT ![s] = "calling"]
    /\ UNCHANGED <<telapsed, tcall, tseen>>

\* Time passes while the payment call of request s is outstanding.
TimedTick(s) ==
    /\ tpc[s] = "calling"
    /\ telapsed[s] < ClientTimeout
    /\ telapsed' = [telapsed EXCEPT ![s] = @ + TimeStep]
    /\ UNCHANGED <<tpc, tcall, tseen>>

\* The payment service answers before the payment client's timeout.
TimedAnswer(s) ==
    /\ tpc[s] = "calling"
    /\ telapsed[s] < ClientTimeout
    /\ tcall' = [tcall EXCEPT ![s] = "answered"]
    /\ tpc' = [tpc EXCEPT ![s] = "responding"]
    /\ UNCHANGED <<telapsed, tseen>>

\* The payment call hangs until http.Client.Timeout cuts it off.
TimedClientTimeout(s) ==
    /\ tpc[s] = "calling"
    /\ telapsed[s] >= ClientTimeout
    /\ tcall' = [tcall EXCEPT ![s] = "timeout"]
    /\ tpc' = [tpc EXCEPT ![s] = "responding"]
    /\ UNCHANGED <<telapsed, tseen>>

\* CreateOrder writes its response: 201 after an answer, 503 after an error
\* of the payment client.  A write after the connection's write deadline
\* fails and the sender receives no response (0).
TimedRespond(s) ==
    /\ tpc[s] = "responding"
    /\ tseen' = [tseen EXCEPT ![s] =
                    IF telapsed[s] >= WriteTimeout THEN 0
                    ELSE IF tcall[s] = "answered" THEN 201 ELSE 503]
    /\ tpc' = [tpc EXCEPT ![s] = "done"]
    /\ UNCHANGED <<telapsed, tcall>>

\* A step of the timed view leaves everything else alone.
TimedStep(A) ==
    A /\ UNCHANGED ledgerVars /\ UNCHANGED sagaVars /\ UNCHANGED memVars
      /\ UNCHANGED probeVars

\* Order requests against the clocks of the payment client and the server.
TimeoutNext ==
    \/ \E s \in Sagas : TimedStep(TimedAccept(s))
    \/ \E s \in Sagas : TimedStep(TimedTick(s))
    \/ \E s \in Sagas : TimedStep(TimedAnswer(s))
    \/ \E s \in Sagas : TimedStep(TimedClientTimeout(s))
    \/ \E s \in Sagas : TimedStep(TimedRespond(s))

TimeoutSpec == Init /\ [][TimeoutNext]_vars

\* The order service's sagas and the payment-service handlers they call.
Next ==
    \/ \E s \in Sagas, req \in OrderRequests, dbok \in BOOLEAN :
          OrderStep(SagaCreate(s, req, dbok))
    \/ \E s \in Sagas, delivered \in BOOLEAN : SagaInvoke(s, delivered)
    \/ \E s \in Sagas : OrderStep(SagaTimeout(s))
    \/ \E s \in Sagas : OrderStep(SagaReceive(s))
    \/ \E s \in Sagas, dbok \in BOOLEAN : OrderStep(SagaPayErr(s, dbok))
    \/ \E s \in Sagas, dbok \in BOOLEAN : OrderStep(SagaPatchRef(s, dbok))
    \/ \E s \in Sagas, dbok \in BOOLEAN : OrderStep(SagaPatchStatus(s, dbok))
    \/ \E h \in Sagas : PaymentStep(PayCheck(h))
    \/ \E h \in Sagas, dbok \in BOOLEAN : PaymentStep(PayInsert(h, dbok))
    \/ \E h \in Sagas, dbok \in BOOLEAN : PaymentStep(PayResolve(h, dbok))

Spec == Init /\ [][Next]_vars

\* The in-memory ledger of package data under arbitrary calls.
MemNext ==
    \/ \E c \in Candidates, in \in MemInputs, key \in MemKeys :
          MemStep(MemCreatePayment(c, in[1], in[2], key))
    \/ \E id \in 1..MaxCandidates : MemStep(MemProcessPayment(id))
    \/ MemStep(MemTick)

MemSpec == Init /\ [][MemNext]_vars

\* The in-memory ledger with callers that look payments up and keep what
\* they were handed.
LookupNext ==
    \/ \E c \in Candidates, in \in MemInputs, key \in MemKeys :
          MemStep(MemCreatePayment(c, in[1], in[2], key))
    \/ \E id \in 1..MaxCandidates : MemStep(MemProcessPayment(id))
    \/ \E id \in 1..(MaxCandidates + 1) : LookupStep(MemGetPaymentByID(id))
    \/ \E key \in MemKeys : LookupStep(MemGetPaymentByIdempotencyKey(key))

LookupSpec == Init /\ [][LookupNext]_vars

\* The order repository under arbitrary direct calls.
RepoNext ==
    \/ \E s \in Sagas, req \in OrderRequests : RepoStep(RepoCreate(s, req))
    \/ \E id \in RepoIds, status \in {OrderStatusPaid, OrderStatusFailed},
          dbok \in BOOLEAN : RepoStep(RepoUpdateStatus(id, status, dbok))
    \/ \E id \in RepoIds, paymentID \in Sagas, dbok \in BOOLEAN :
          RepoStep(RepoUpdatePaymentID(id, paymentID, dbok))

RepoSpec == Init /\ [][RepoNext]_vars

\* ================================================================== claims

\* ---- payment ledger under concurrent direct callers (LedgerSpec)

\* The callers that submitted idempotency key `key`.
KeyCallers(key) ==
    {h \in Callers : hpc[h] # "idle" /\ hpay[h].idempotency_key = key}

\* Handler h met no storage outage: neither its INSERT nor its UPDATE
\* failed for a reason other than a constraint.
StorageWorked(h) ==
    /\ hcreate[h] # "failed to create payment"
    /\ hresp[h].error # "Payment created but failed to process"

\* C1: once all concurrent create requests that carry one idempotency key
\* have returned, exactly one committed payment exists for the key and every
\* caller has received that payment's id, none a failure.  Stated for the
\* runs in which storage works and the gateway accepts, where the claim
\* promises the most.
C1_AllCallersOnePayment ==
    \A key \in CallerKeys :
        LET hs == KeyCallers(key) IN
        ( /\ Cardinality(hs) >= 2
          /\ \A h \in hs : /\ hpc[h] = "done"
                           /\ StorageWorked(h)
                           /\ simulatePaymentGateway(hpay[h].amount) )
        => /\ Cardinality(GetByIdempotencyKey(key)) = 1
           /\ \A h \in hs :
                 /\ hresp[h].code < 400
                 /\ \E p \in GetByIdempotencyKey(key) : hresp[h].data.id = p.id

\* C2: in every reachable state of the payments table, at most one row
\* carries a given idempotency key.
C2_OneRowPerKey ==
    \A p \in payments, q \in payments :
        p.idempotency_key = q.idempotency_key => p.id = q.id

\* C2 witness: two creates raced past the pre-check and the second INSERT
\* was rejected, leaving one row for the key.
C2_Witness ==
    \E h \in Callers :
        /\ hcreate[h] = ErrDuplicateIdempotencyKey
        /\ Cardinality(GetByIdempotencyKey(hpay[h].idempotency_key)) = 1

\* C10: when the pre-check of a create raced and its INSERT was rejected by
\* the uniqueness constraint, the caller is answered with the existing
\* committed payment, not with a failure.
C10_RaceLoserGetsExisting ==
    \A h \in Callers :
        (hpc[h] = "done" /\ hcreate[h] = ErrDuplicateIdempotencyKey)
        => /\ hresp[h].code < 400
           /\ \E p \in GetByIdempotencyKey(hpay[h].idempotency_key) :
                 hresp[h].data.id = p.id

\* ---- order-creation sagas (Spec)

\* The payments that reference order `id`.
PaymentsOfOrder(id) == {p \in payments : p.order_id = id}

\* C3: for every order, at most one completed payment referencing it
\* exists, whatever the failures and timeouts of the payment call.
C3_DebitedAtMostOnce ==
    \A s \in Sagas :
        Cardinality({p \in PaymentsOfOrder(GenerateOrderID(s)) :
                        p.status = PaymentStatusCompleted}) <= 1

\* C3 witness: a saga whose payment call timed out has ended while its
\* order carries a completed payment.
C3_Witness ==
    \E s \in Sagas :
        /\ spc[s] = "done"
        /\ scall[s] = "timeout"
        /\ \E p \in PaymentsOfOrder(sorder[s].id) : p.status = PaymentStatusCompleted

\* The saga ended after the payment client returned a completed payment.
PaidCase(s) ==
    /\ spc[s] = "done"
    /\ scall[s] = "ok"
    /\ spay[s].status = PaymentStatusCompleted

DeclinedCase(s) ==
    /\ spc[s] = "done"
    /\ scall[s] \in {"ok", "status"}
    /\ sfail[s] = {}
    /\ \E p \in PaymentsOfOrder(sorder[s].id) : p.status = PaymentStatusFailed

\* C5: when the payment resolves to failed, CreateOrder patches the order
\* to failed, records the payment's id as the payment reference and
\* responds PaymentDeclined with the gateway's error detail.
C5_DeclineSurfaced ==
    \A s \in Sagas :
        DeclinedCase(s)
        => /\ \E o \in orders :
                 /\ o.id = sorder[s].id
                 /\ o.status = OrderStatusFailed
                 /\ \E p \in PaymentsOfOrder(o.id) : o.payment_id = p.id
           /\ sresp[s].code = 402
           /\ sresp[s].error = DeclineMessage

\* The saga ended after the payment call failed at the transport level.
TransportFailed(s) ==
    /\ spc[s] = "done"
    /\ scall[s] \in {"unreachable", "timeout"}

DuplicateCreate(c) ==
    /\ merr[c] = ""
    /\ merr'[c] # ""
    /\ mreq'[c].idempotency_key \in DOMAIN idempotencyMap

\* C8: a create whose idempotency key already exists signals
\* DuplicateIdempotencyKey, leaves the caller's candidate equal to the
\* existing payment (so carrying the first payment's id) and changes neither
\* the list, nor any listed payment, nor the index, nor the id counter.
C8_DuplicateReturnsExisting ==
    [][ \A c \in Candidates :
          DuplicateCreate(c)
          => /\ merr'[c] = ErrDuplicateIdempotencyKey
             /\ heap'[c].id = idempotencyMap[mreq'[c].idempotency_key]
             /\ \E i \in 1..Len(paymentList) :
                   /\ heap[paymentList[i]].idempotency_key = mreq'[c].idempotency_key
                   /\ heap'[c] = heap[paymentList[i]]
             /\ paymentList' = paymentList
             /\ \A i \in 1..Len(paymentList) :
                   heap'[paymentList[i]] = heap[paymentList[i]]
             /\ idempotencyMap' = idempotencyMap
             /\ nextID' = nextID ]_vars

\* C8 witness: a candidate for another order and amount was answered as a
\* duplicate and now carries the first payment's id.
C8_Witness ==
    \E c \in Candidates :
        /\ merr[c] = ErrDuplicateIdempotencyKey
        /\ mreq[c].order_id # heap[c].order_id
        /\ mreq[c].amount # heap[c].amount
        /\ heap[c].id = idempotencyMap[mreq[c].idempotency_key]

\* C9: ProcessPayment on a payment already completed or failed signals
\* AlreadyProcessed and leaves every field of the payment unchanged.
C9_TerminalResolveRejected ==
    ( /\ mproc.before # NoPayment
      /\ mproc.before.status \in {PaymentStatusCompleted, PaymentStatusFailed} )
    => /\ mproc.err = ErrPaymentAlreadyProcessed
       /\ mproc.after = mproc.before

\* ---- resubmission to the payment service (LedgerSpec)

\* Caller h was answered from the duplicate pre-check, without an INSERT.
AnsweredAsDuplicate(h) == hpc[h] = "done" /\ hcreate[h] = ""

\* Caller h went the fresh path to its end with storage at work.
AnsweredFresh(h) ==
    /\ hpc[h] = "done"
    /\ hcreate[h] = "ok"
    /\ StorageWorked(h)

\* C12: a second submission with the same idempotency key is answered like
\* the fresh submission was: same success or failure outcome, same payment
\* id and same payment status.
C12_ResubmissionIndistinguishable ==
    \A h1 \in Callers, h2 \in Callers :
        ( /\ AnsweredFresh(h1)
          /\ AnsweredAsDuplicate(h2)
          /\ hpay[h2].idempotency_key = hpay[h1].idempotency_key )
        => /\ hresp[h2].code = hresp[h1].code
           /\ hresp[h2].data.id = hpay[h1].id
           /\ hresp[h2].data.status = hpay[h1].status

\* ---- idempotency keys of the sagas (Spec)

\* Sagas s and t carry the same order-creation request (the client sent the
\* body again) and both handed a payment request to the payment client.
SameAttempt(s, t) ==
    /\ s # t
    /\ ssent[s] # <<>>
    /\ ssent[t] # <<>>
    /\ sorder[s].customer_id = sorder[t].customer_id
    /\ sorder[s].currency = sorder[t].currency
    /\ sorder[s].payment_method = sorder[t].payment_method
    /\ sorder[s].items = sorder[t].items

\* C13: a retry of the same order-creation attempt presents the same
\* idempotency key as the first attempt, so the two attempts together leave
\* at most one payment.
C13_RetryReusesKey ==
    \A s \in Sagas, t \in Sagas :
        SameAttempt(s, t)
        => /\ ssent[s][1].idempotency_key = ssent[t][1].idempotency_key
           /\ Cardinality(PaymentsOfOrder(sorder[s].id)
                          \cup PaymentsOfOrder(sorder[t].id)) <= 1

\* C14: payment requests of orders with different ids carry different
\* idempotency keys, and each key embeds the id of its order.
C14_DistinctOrdersDistinctKeys ==
    \A s \in Sagas, t \in Sagas :
        \A i \in DOMAIN ssent[s], j \in DOMAIN ssent[t] :
            /\ ssent[s][i].idempotency_key[1] = ssent[s][i].order_id
            /\ ssent[s][i].order_id # ssent[t][j].order_id
               => ssent[s][i].idempotency_key # ssent[t][j].idempotency_key

\* C14 witness: two orders with the same content have both reached the
\* payment ledger, each under its own key.
C14_Witness ==
    \E s \in Sagas, t \in Sagas :
        /\ SameAttempt(s, t)
        /\ PaymentsOfOrder(sorder[s].id) # {}
        /\ PaymentsOfOrder(sorder[t].id) # {}

\* ---- order lifecycle (Spec)

\* Every status change of an order row in this step leads from pending to
\* paid or failed, and a new row is pending.
StatusMovesForward ==
    \A n \in orders' :
        IF \E o \in orders : o.id = n.id
        THEN \A o \in orders :
                (o.id = n.id /\ o.status # n.status)
                => /\ o.status = OrderStatusPending
                   /\ n.status \in {OrderStatusPaid, OrderStatusFailed}
        ELSE n.status = OrderStatusPending

\* The request of saga s has ended and left an order row.
FinishedOrders(s) == {o \in orders : spc[s] = "done" /\ o.id = GenerateOrderID(s)}

C16_NoPaymentWithoutOrder ==
    /\ [](\A s \in Sagas :
             "Create" \in sfail[s]
             => /\ spc[s] = "done"
                /\ sresp[s].code = 500
                /\ sresp[s].error = "Failed to create order"
                /\ ssent[s] = <<>>
                /\ hpc[s] = "idle"
                /\ PaymentsOfOrder(sorder[s].id) = {})
    /\ [][\A s \in Sagas :
             ssent'[s] # ssent[s]
             => \E o \in orders :
                   /\ o.id = ssent'[s][Len(ssent'[s])].order_id
                   /\ o.status = OrderStatusPending]_vars

\* C16 witness: one request ended because its INSERT failed while another
\* reached the payment ledger.
C16_Witness ==
    \E s \in Sagas, t \in Sagas :
        /\ "Create" \in sfail[s]
        /\ spc[s] = "done"
        /\ PaymentsOfOrder(GenerateOrderID(t)) # {}

\* C17: a request rejected in the Build step writes nothing: no order row
\* exists for it, no payment request is handed over, and the rejecting step
\* leaves both tables as they were.
C17_RejectedBuildWritesNothing ==
    /\ [](\A s \in Sagas :
             sresp[s].code = 400
             => /\ ~\E o \in orders : o.id = GenerateOrderID(s)
                /\ PaymentsOfOrder(GenerateOrderID(s)) = {}
                /\ ssent[s] = <<>>
                /\ hpc[s] = "idle")
    /\ [][\A s \in Sagas :
             (sresp[s].code # 400 /\ sresp'[s].code = 400)
             => orders' = orders /\ payments' = payments]_vars

\* C17 witness: one request was rejected for an unavailable product and
\* another for a total that is not positive.
C17_Witness ==
    \E s \in Sagas, t \in Sagas :
        /\ sresp[s].code = 400 /\ sresp[s].error = "product unavailable"
        /\ sresp[t].code = 400 /\ sresp[t].error = "Invalid order total"

\* C18: for each order the Orchestrator hands at most one payment request to
\* the payment client, on every path, and so at most one payment references
\* the order.
C18_AtMostOnePaymentRequest ==
    \A s \in Sagas :
        /\ Len(ssent[s]) <= 1
        /\ Cardinality(PaymentsOfOrder(GenerateOrderID(s))) <= 1

\* C18 witness: a request ended after a transport failure with exactly one
\* payment request issued.
C18_Witness ==
    \E s \in Sagas :
        /\ TransportFailed(s)
        /\ Len(ssent[s]) = 1

\* C19: every payment request carries amount, currency, method, customer and
\* order id of the persisted order, whose total is computed from the catalog
\* prices; every payment committed for an order has the order's total and
\* currency.
C19_PaymentMirrorsOrder ==
    \A s \in Sagas :
        /\ \A i \in DOMAIN ssent[s] :
              \E o \in orders :
                 /\ o.id = ssent[s][i].order_id
                 /\ o.total_amount = CalculateTotal(o.items)
                 /\ ssent[s][i].amount = o.total_amount
                 /\ ssent[s][i].currency = o.currency
                 /\ ssent[s][i].method = o.payment_method
                 /\ ssent[s][i].customer_id = o.customer_id
        /\ \A p \in PaymentsOfOrder(GenerateOrderID(s)) :
              \E o \in orders :
                 /\ o.id = p.order_id
                 /\ p.amount = o.total_amount
                 /\ p.currency = o.currency

\* C19 witness: a payment is committed for an order whose currency, method
\* and customer differ from those of a direct caller.
C19_Witness ==
    \E p \in payments, o \in orders :
        /\ p.order_id = o.id
        /\ o.currency = "EGP"
        /\ p.currency = "EGP"
        /\ p.amount = o.total_amount

\* ---- timeouts (TimeoutSpec)

\* C20: a hung payment call is cut off by the payment client's timeout
\* before the order request's own server timeout, so the sender of the
\* order request receives PaymentServiceUnavailable.
C20_HungCallEndsUnavailable ==
    \A s \in Sagas :
        (tpc[s] = "done" /\ tcall[s] = "timeout")
        => /\ ClientTimeout < WriteTimeout
           /\ tseen[s] = 503

\* ---- order totals (Spec)

\* The sum of the stored subtotals of order lines.
RECURSIVE SumOfSubtotals(_)
SumOfSubtotals(items) ==
    IF items = <<>> THEN 0
    ELSE Head(items).subtotal + SumOfSubtotals(Tail(items))

\* C21: for every order, each line's subtotal is its quantity times the
\* unit price of the product record, whatever price the client sent, and the
\* order's total_amount is the sum of the stored subtotals.
C21_TotalIsSumOfServerPricedLines ==
    \A o \in orders :
        /\ \A i \in DOMAIN o.items :
              /\ o.items[i].unit_price = Catalog[o.items[i].product_id].price
              /\ o.items[i].subtotal =
                    o.items[i].quantity * Catalog[o.items[i].product_id].price
        /\ o.total_amount = SumOfSubtotals(o.items)

\* C21 witness: an order of two lines, one with a quantity above one and a
\* client-sent price different from the product's, is stored with total 55.
C21_Witness ==
    \E o \in orders :
        /\ Len(o.items) = 2
        /\ o.items[1].quantity = 2
        /\ o.items[1].unit_price = 25
        /\ o.total_amount = 55

\* ---- in-memory ledger: create and resolve (MemSpec)

\* The structs the ledger lists.
Listed == {paymentList[i] : i \in 1..Len(paymentList)}

\* The step is a call CreatePayment(c) whose key is not in the index.
FreshCreate(c) ==
    /\ merr[c] = ""
    /\ merr'[c] # ""
    /\ mreq'[c].idempotency_key \notin DOMAIN idempotencyMap

\* C22: a create whose idempotency key is new succeeds, gives the payment a
\* non-empty id different from the id of every payment in the ledger, sets
\* status pending, records the creation time and commits exactly one row.
C22_FreshCreateCommitsOneRow ==
    [][ \A c \in Candidates :
          FreshCreate(c)
          => /\ merr'[c] = "ok"
             /\ heap'[c].id # NoPayment.id
             /\ \A d \in Listed : heap[d].id # heap'[c].id
             /\ heap'[c].status = PaymentStatusPending
             /\ heap'[c].created_at = Now
             /\ heap'[c].order_id = mreq'[c].order_id
             /\ heap'[c].amount = mreq'[c].amount
             /\ paymentList' = Append(paymentList, c)
             /\ \A d \in Listed : heap'[d] = heap[d]
             /\ idempotencyMap'[mreq'[c].idempotency_key] = heap'[c].id ]_vars

\* C22 witness: the ledger lists two payments created under two keys.
C22_Witness ==
    /\ Len(paymentList) = 2
    /\ heap[paymentList[1]].id # heap[paymentList[2]].id
    /\ heap[paymentList[2]].status = PaymentStatusPending

\* C23: ProcessPayment on a pending payment returns no error and sets the
\* terminal status from the gateway's decision: completed with transaction
\* reference and processed timestamp exactly when the gateway accepts,
\* failed with error detail and failed timestamp exactly when it declines.
C23_ResolveFollowsGateway ==
    ( /\ mproc.before # NoPayment
      /\ mproc.before.status = PaymentStatusPending )
    => /\ mproc.err = "nil"
       /\ IF mproc.before.amount = DeclineSentinel
             \/ mproc.before.amount > AmountCeiling
          THEN /\ mproc.after.status = PaymentStatusFailed
               /\ mproc.after.error_message # Null
               /\ mproc.after.failed_at # Null
               /\ mproc.after.transaction_id = Null
               /\ mproc.after.processed_at = Null
          ELSE /\ mproc.after.status = PaymentStatusCompleted
               /\ mproc.after.transaction_id # Null
               /\ mproc.after.processed_at # Null
               /\ mproc.after.error_message = Null
               /\ mproc.after.failed_at = Null

\* C23 witness: a pending payment the gateway declines was resolved to
\* failed without an error, after another was resolved to completed.
C23_Witness ==
    /\ mproc.err = "nil"
    /\ mproc.before # NoPayment
    /\ mproc.before.status = PaymentStatusPending
    /\ mproc.after.status = PaymentStatusFailed
    /\ \E d \in Listed : heap[d].status = PaymentStatusCompleted

\* C25: a payment's status only moves from pending (through processing) to
\* completed or failed, and once a payment is terminal no operation changes
\* any of its fields.
C25_TerminalPaymentsImmutable ==
    [][ \A d \in Listed :
          /\ heap[d].status \in {PaymentStatusCompleted, PaymentStatusFailed}
             => heap'[d] = heap[d]
          /\ heap'[d].status # heap[d].status
             => /\ heap[d].status = PaymentStatusPending
                /\ heap'[d].status \in {PaymentStatusCompleted,
                                        PaymentStatusFailed} ]_vars

\* C26: for every payment in the ledger the transaction reference is set
\* only if the status is completed, the error detail only if it is failed,
\* and at most one of the processed and failed timestamps is set.
C26_TerminalFieldsMatchStatus ==
    \A d \in Listed :
        /\ heap[d].transaction_id # Null
           => heap[d].status = PaymentStatusCompleted
        /\ heap[d].error_message # Null
           => heap[d].status = PaymentStatusFailed
        /\ heap[d].processed_at = Null \/ heap[d].failed_at = Null

\* C26 witness: the ledger holds a completed payment with a transaction
\* reference and a failed one with an error detail.
C26_Witness ==
    \E d \in Listed, e \in Listed :
        /\ heap[d].status = PaymentStatusCompleted
        /\ heap[d].transaction_id # Null
        /\ heap[e].status = PaymentStatusFailed
        /\ heap[e].error_message # Null

\* ---- the gateway's decision (LedgerSpec)

\* The amounts the gateway declines.
DeclinedAmount(amount) == amount = DeclineSentinel \/ amount > AmountCeiling

\* C24: the gateway's decision is a function of the amount alone: a payment
\* is declined exactly when its amount is 666 or above 10000, whatever its
\* method and whatever was decided for other payments.
C24_DeclineByAmountAlone ==
    /\ \A p \in payments :
          p.status \in {PaymentStatusCompleted, PaymentStatusFailed}
          => (p.status = PaymentStatusFailed <=> DeclinedAmount(p.amount))
    /\ \A h \in Callers :
          (hpc[h] = "done" /\ hcreate[h] = "ok")
          => /\ hpay[h].status = PaymentStatusFailed
                <=> DeclinedAmount(hpay[h].amount)
             /\ hpay[h].status = PaymentStatusCompleted
                <=> ~DeclinedAmount(hpay[h].amount)

\* C24 witness: with the same method, a payment of exactly the ceiling was
\* accepted and one a unit above it was declined.
C24_Witness ==
    \E p \in payments, q \in payments :
        /\ p.method = q.method
        /\ p.amount = AmountCeiling
        /\ p.status = PaymentStatusCompleted
        /\ q.amount = AmountCeiling + 1
        /\ q.status = PaymentStatusFailed

\* ---- lookups in the in-memory ledger (LookupSpec)

\* No listed payment matches the lookup recorded in view v.
Absent(v) ==
    IF v.op = "GetPaymentByID"
    THEN \A d \in Listed : heap[d].id # v.id
    ELSE \A d \in Listed : heap[d].idempotency_key # v.key

\* C27: a lookup by id or by idempotency key signals NotFound exactly when
\* no payment matches, and otherwise what the caller was handed keeps the
\* value it had when the lookup returned, whatever the ledger does later.
C27_LookupReturnsSnapshot ==
    /\ [][ mview' # mview
           => (mview'.err = ErrPaymentNotFound <=> Absent(mview')) ]_vars
    /\ [](mview.err = "nil" => heap[mview.ptr] = mview.seen)

\* ---- the order repository's partial writes (RepoSpec)

\* The step is an update call for an order id no row has.
UpdateOfMissing ==
    /\ rcall' # rcall
    /\ rcall'.op \in {"UpdateStatus", "UpdatePaymentID"}
    /\ \A o \in orders : o.id # rcall'.id

\* C28: UpdateStatus and UpdatePaymentID on an order id that no row has
\* never report success and change no row, and when the statement ran
\* (zero rows affected) the error is ErrOrderNotFound.
C28_MissingOrderIsNotFound ==
    [][ UpdateOfMissing
        => /\ rcall'.err # "nil"
           /\ rcall'.ran => rcall'.err = ErrOrderNotFound
           /\ orders' = orders ]_vars

\* C28 witness: with an order stored and patched to paid, a status update
\* for another id came back with ErrOrderNotFound.
C28_Witness ==
    /\ rcall.op = "UpdateStatus"
    /\ rcall.err = ErrOrderNotFound
    /\ \E o \in orders : o.status = OrderStatusPaid /\ o.id # rcall.id

\* ---- what CreateOrder answers and what the order row references (Spec)

\* C29: every terminal response of CreateOrder for a stored order carries
\* the order with the status its row has in the orders table at that time,
\* and a failure response also carries a human-readable reason.
C29_ResponseCarriesCurrentStatus ==
    \A s \in Sagas :
        \A o \in orders :
            (spc[s] = "done" /\ o.id = sorder[s].id)
            => /\ sresp[s].order # NoOrder
               /\ sresp[s].order.status = o.status
               /\ sresp[s].code >= 400 => sresp[s].error # ""

\* C30: an order's payment reference is unset as long as no payment of the
\* order is in the payment ledger; when set it is the id of a ledger payment
\* whose order reference is that order; an order references one payment at
\* most and no two rows with one order id disagree on it.
C30_PaymentReferenceResolves ==
    \A o \in orders :
        /\ PaymentsOfOrder(o.id) = {} => o.payment_id = NoPayment.id
        /\ o.payment_id # NoPayment.id
           => /\ \E p \in payments :
                    p.id = o.payment_id /\ p.order_id = o.id
              /\ Cardinality({p \in payments : p.id = o.payment_id}) = 1
        /\ \A q \in orders : q.id = o.id => q.payment_id = o.payment_id

\* C30 witness: two orders are stored, and one of them references its
\* payment while the other, whose payment call never arrived, references
\* none.
C30_Witness ==
    \E o \in orders, q \in orders :
        /\ o.payment_id # NoPayment.id
        /\ \E p \in payments : p.id = o.payment_id /\ p.order_id = o.id
        /\ q.id # o.id
        /\ q.payment_id = NoPayment.id
        /\ spc[q.id] = "done"

\* ---- validation in front of the payment handler (ValidationSpec)

\* C31: a payment request that fails validation is rejected before the
\* create path runs: the step that answers 400 leaves the ledger as it was,
\* the rejected request never gets a payment id or reaches repo.Create, and
\* every row of the ledger passes validation.
C31_InvalidRequestHasNoEffect ==
    /\ [][ \A h \in Callers :
             (hresp'[h].code = 400 /\ hresp[h].code # 400)
             => payments' = payments ]_vars
    /\ [](\A h \in Callers :
             hresp[h].code = 400
             => /\ hpay[h] = NoPayment
                /\ hcreate[h] = ""
                /\ GetByID(GeneratePaymentID(h)) = {})
    /\ [](\A p \in payments :
             /\ p.amount > 0
             /\ p.currency \in validCurrencies
             /\ p.method \in validMethods
             /\ p.customer_id # ""
             /\ p.idempotency_key # <<0, 0>>)

\* C31 witness: one caller was rejected with 400 while the ledger holds
\* the payment of another.
C31_Witness ==
    /\ \E h \in Callers : hresp[h].code = 400
    /\ payments # {}

\* ---- the order of the steps of one request (Spec)

\* Where a position of CreateOrder lies in the sequence build and persist,
\* derive key and invoke, await, patch reference or take the error branch,
\* patch status, respond.
StepRank(pc) ==
    CASE pc = "start" -> 0
      [] pc = "invoke" -> 1
      [] pc = "wait" -> 2
      [] pc = "patchref" -> 3
      [] pc = "payerr" -> 4
      [] pc = "patchstatus" -> 4
      [] pc = "done" -> 5

\* C32: within one request the steps of CreateOrder occur in their fixed
\* order, none twice and none after a later one; the payment is invoked at
\* most once; no order row is ever deleted or put back to pending.
C32_SagaMovesForward ==
    [][ /\ \A s \in Sagas :
             /\ spc'[s] # spc[s] => StepRank(spc'[s]) > StepRank(spc[s])
             /\ Len(ssent'[s]) <= 1
        /\ \A o \in orders :
             \E q \in orders' :
                /\ q.id = o.id
                /\ o.status # OrderStatusPending
                   => q.status # OrderStatusPending ]_vars

\* C32 witness: one request went through every step and answered 201,
\* another took the error branch and answered 503; both rows are stored.
C32_Witness ==
    \E s \in Sagas, r \in Sagas :
        /\ spc[s] = "done" /\ sresp[s].code = 201
        /\ spc[r] = "done" /\ sresp[r].code = 503
        /\ \E o \in orders : o.id = sorder[s].id /\ o.status = OrderStatusPaid
        /\ \E o \in orders : o.id = sorder[r].id /\ o.status = OrderStatusFailed

\* ---- partial writes of the order repository (RepoSpec)

\* C33: UpdateStatus changes nothing but the status of the order it names,
\* UpdatePaymentID nothing but that order's payment reference, and neither
\* touches, adds or removes any other row.
C33_UpdatesArePartialWrites ==
    [][ (rcall' # rcall /\ rcall'.op \in {"UpdateStatus", "UpdatePaymentID"})
        => /\ Cardinality(orders') = Cardinality(orders)
           /\ \A o \in orders :
                \E q \in orders' :
                   /\ q.id = o.id
                   /\ o.id # rcall'.id => q = o
                   /\ rcall'.op = "UpdateStatus"
                      => q = [o EXCEPT !.status = q.status]
                   /\ rcall'.op = "UpdatePaymentID"
                      => q = [o EXCEPT !.payment_id = q.payment_id] ]_vars

\* C33 witness: the status of an order that carries a payment reference
\* was updated while another order is stored with a different status.
C33_Witness ==
    /\ rcall.op = "UpdateStatus"
    /\ rcall.err = "nil"
    /\ \E o \in orders, q \in orders :
          /\ o.id = rcall.id
          /\ o.status = rcall.arg
          /\ o.payment_id # NoPayment.id
          /\ q.id # o.id
          /\ q.status # o.status

\* ---- two requests side by side (Spec)

\* The step belongs to request s: CreateOrder for s or the payment handler
\* serving its payment call moves on.
StepOf(s) == spc'[s] # spc[s] \/ hpc'[s] # hpc[s]

\* The status the row of request s ends with, from what s itself saw.
OwnFinalStatus(s) ==
    IF "UpdateStatus" \in sfail[s] THEN OrderStatusPending
    ELSE IF scall[s] = "ok" /\ spay[s].status = PaymentStatusCompleted
    THEN OrderStatusPaid
    ELSE OrderStatusFailed

\* The payment reference the row of request s ends with.
OwnFinalReference(s) ==
    IF scall[s] = "ok" /\ "UpdatePaymentID" \notin sfail[s]
    THEN spay[s].id
    ELSE NoPayment.id

C35_NoCompletedPaymentOnUnpaidOrder ==
    \A s \in Sagas :
        \A o \in orders :
            ( /\ spc[s] = "done"
              /\ o.id = GenerateOrderID(s)
              /\ \E p \in PaymentsOfOrder(o.id) :
                    p.status = PaymentStatusCompleted )
            => o.status = OrderStatusPaid

\* C36: whenever an order is paid in the orders table, the payments table
\* holds a completed payment whose order reference is that order and whose
\* amount is the order's total_amount.
C36_PaidOrderHasCompletedPayment ==
    \A o \in orders :
        o.status = OrderStatusPaid
        => \E p \in payments :
              /\ p.order_id = o.id
              /\ p.status = PaymentStatusCompleted
              /\ p.amount = o.total_amount

\* C36 witness: an order of total 55 is paid and its payment of 55 is
\* completed.
C36_Witness ==
    \E o \in orders, p \in payments :
        /\ o.status = OrderStatusPaid
        /\ o.total_amount = 55
        /\ p.order_id = o.id
        /\ p.amount = 55
        /\ p.status = PaymentStatusCompleted

C38_ErrorStatusesTakeUnavailableBranch ==
    \A s \in Sagas :
        /\ scall[s] = "ok"
           => /\ hresp[s].code # 0
              /\ hresp[s].code < 400
              /\ spay[s] = hresp[s].data
        /\ scall[s] = "status"
           => /\ hresp[s].code >= 400
              /\ spay[s] = NoPayment
        /\ (spc[s] = "done" /\ sresp[s].code = 402)
           => /\ scall[s] = "ok"
              /\ hresp[s].code < 400
              /\ spay[s].status # PaymentStatusCompleted
        /\ (spc[s] = "done" /\ hresp[s].code >= 400)
           => sresp[s].code = 503

\* C38 witness: the payment service answered 402 for a decline, the
\* client returned it as an error and the request ended with 503, while
\* another request got a payment from a 200.
C38_Witness ==
    \E s \in Sagas, r \in Sagas :
        /\ spc[s] = "done"
        /\ hresp[s].code = 402
        /\ scall[s] = "status"
        /\ sresp[s].code = 503
        /\ scall[r] = "ok"
        /\ hresp[r].code = 200

\* ---- pending payments get resolved (LedgerFairSpec)

\* The row handler h inserted is in a terminal status.
RowResolved(h) ==
    /\ GetByID(hpay[h].id) # {}
    /\ \A r \in GetByID(hpay[h].id) :
          r.status \in {PaymentStatusCompleted, PaymentStatusFailed}

C40_IndexAgreesWithList ==
    /\ \A key \in DOMAIN idempotencyMap :
          /\ findPayment(idempotencyMap[key]) # <<>>
          /\ \E d \in Listed :
                /\ heap[d].id = idempotencyMap[key]
                /\ heap[d].idempotency_key = key
    /\ \A d \in Listed :
          /\ heap[d].idempotency_key \in DOMAIN idempotencyMap
          /\ idempotencyMap[heap[d].idempotency_key] = heap[d].id

\* C40 witness: a payment is listed and indexed, and a second create with
\* its key went through the duplicate branch and was handed that payment.
C40_Witness ==
    \E c \in Candidates, d \in Listed :
        /\ merr[c] = ErrDuplicateIdempotencyKey
        /\ c # d
        /\ heap[c].id = heap[d].id
        /\ heap[d].idempotency_key \in DOMAIN idempotencyMap

====
